---- MODULE Spec2Model ----
(***************************************************************************)
(* A model of the NSMBU wave simulator (src/main.py): the WaveConfig       *)
(* record, the settings panel that edits it, the render widget's timer and *)
(* paint handlers, and the fragment shader that colours every pixel.       *)
(*                                                                         *)
(* Numbers.  The program computes with floats.  Here every float is a      *)
(* fixed-point integer counting 1/Scale units (150.5 is 15050), angles in  *)
(* radians count 1/(Scale * 10^4) units, and the GLSL sin() is Bhaskara's  *)
(* rational approximation.  Pixel centres are at k + 0.5.                  *)
(***************************************************************************)
EXTENDS Integers, Sequences, FiniteSets

VARIABLES
    config,         \* WaveConfig: the twelve configuration fields
    spin,           \* the value each QDoubleSpinBox holds
    button,         \* the QColor (8-bit r, g, b) each ColorPickerButton shows
    waveOffset1,    \* RenderWidget.waveOffset1
    waveOffset2,    \* RenderWidget.waveOffset2
    updatePending,  \* a QWidget.update() request is waiting for its paint
    uniforms,       \* the uniform values the shader program holds
    frame,          \* the framebuffer: what the last draw wrote per pixel
    merged,         \* the last direct evaluation of the shader's merge()
    last,           \* the handler that ran last, and the effects it had, in order
    ticks,          \* timer ticks so far
    nEdits          \* signals the settings panel has handled so far

vars == <<config, spin, button, waveOffset1, waveOffset2, updatePending,
          uniforms, frame, merged, last, ticks, nEdits>>

---------------------------------------------------------------------------
(* Bounds of the model *)

MaxTicks == 2       \* timer ticks in a run
MaxEdits == 1       \* settings signals in a run
MaxBorder == 3      \* largest borderWidth / borderGradient (pixels) the shader runs draw

(* Fixed point: two decimals, the finest precision a spin box has *)
Scale == 100

(* pi in 1/10^4 (math.pi, and PI of the shader) *)
PI == 31416

---------------------------------------------------------------------------
(* The fragment shader *)

\* x * y for two fixed-point numbers
FMul(x, y) == (x * y) \div Scale

\* v * math.pi / 360, the conversion paintGL applies to widths and offsets;
\* from 1/Scale half-degrees to radians in 1/(Scale * 10^4)
ToRadians(v) == (v * PI) \div 360

\* GLSL sin(a), a in radians (1/(Scale * 10^4)); the result in 1/Scale.
\* Bhaskara: sin(x) ~ 16 x (pi - x) / (5 pi^2 - 4 x (pi - x)) on [0, pi],
\* evaluated in centiradians.
sin(a) ==
    LET H == PI \div 100
        c == (a % (2 * PI * Scale)) \div (Scale * 100)
        B(x) == (16 * x * (H - x) * Scale) \div (5 * H * H - 4 * x * (H - x))
    IN  IF c <= H THEN B(c) ELSE 0 - B(c - H)

\* vec3 merge(vec3 a, vec3 b, float v)
merge_swapped(a, b, v) ==
    LET diff == [i \in 1..3 |-> a[i] - b[i]]
    IN  [i \in 1..3 |-> b[i] + (diff[i] * v) \div Scale]

merge(a, b, v) ==
    LET diff == [i \in 1..3 |-> b[i] - a[i]]
    IN  [i \in 1..3 |-> a[i] + (diff[i] * v) \div Scale]

\* gl_FragCoord of the pixel in column p[1], row p[2]: the pixel's centre
FragCoord(p) == <<p[1] * Scale + Scale \div 2, p[2] * Scale + Scale \div 2>>

\* the float height main() computes for a fragment
Height(u, fc) ==
    LET x == fc[1]
        h0 == u.baseHeight
        h1 == h0 + FMul(Scale + sin(FMul(x, u.waveWidth1) + u.waveOffset1), u.waveHeight1)
    IN  h1 + FMul(Scale + sin(FMul(x, u.waveWidth2) + u.waveOffset2), u.waveHeight2)

\* What a float division by zero may yield (an infinity, or anything else):
\* the quotient is not specified.
DivZeroQuotients == {0 - 1000 * Scale, 0, 1000 * Scale}

\* void main() of FRAGMENT_SHADER for one fragment.  q is the quotient the
\* device yields should the division be by zero.  The result records the
\* colour written, the branch taken and whether a division by zero was
\* evaluated.
main_closedBelow(u, fc, q) ==
    LET y == fc[2]
        height == Height(u, fc)
    IN  IF y < height
        THEN IF y >= height - u.borderWidth
             THEN [color |-> u.borderColor, branch |-> "border", divByZero |-> FALSE]
             ELSE IF y >= height - u.borderWidth - u.borderGradient
                  THEN LET num == y - (height - u.borderWidth - u.borderGradient)
                           value == IF u.borderGradient = 0 THEN q
                                    ELSE (num * Scale) \div u.borderGradient
                       IN  [color |-> merge(u.waveColor, u.borderColor, value),
                            branch |-> "blend",
                            divByZero |-> (u.borderGradient = 0)]
                  ELSE [color |-> u.waveColor, branch |-> "wave", divByZero |-> FALSE]
        ELSE [color |-> u.backgroundColor, branch |-> "background", divByZero |-> FALSE]

main_gradientClosed(u, fc, q) ==
    LET y == fc[2]
        height == Height(u, fc)
    IN  IF y < height
        THEN IF y > height - u.borderWidth
             THEN [color |-> u.borderColor, branch |-> "border", divByZero |-> FALSE]
             ELSE IF y >= height - u.borderWidth - u.borderGradient
                  THEN LET num == y - (height - u.borderWidth - u.borderGradient)
                           value == IF u.borderGradient = 0 THEN q
                                    ELSE (num * Scale) \div u.borderGradient
                       IN  [color |-> merge(u.waveColor, u.borderColor, value),
                            branch |-> "blend",
                            divByZero |-> (u.borderGradient = 0)]
                  ELSE [color |-> u.waveColor, branch |-> "wave", divByZero |-> FALSE]
        ELSE [color |-> u.backgroundColor, branch |-> "background", divByZero |-> FALSE]

main(u, fc, q) ==
    LET y == fc[2]
        height == Height(u, fc)
    IN  IF y < height
        THEN IF y > height - u.borderWidth
             THEN [color |-> u.borderColor, branch |-> "border", divByZero |-> FALSE]
             ELSE IF y > height - u.borderWidth - u.borderGradient
                  THEN LET num == y - (height - u.borderWidth - u.borderGradient)
                           value == IF u.borderGradient = 0 THEN q
                                    ELSE (num * Scale) \div u.borderGradient
                       IN  [color |-> merge(u.waveColor, u.borderColor, value),
                            branch |-> "blend",
                            divByZero |-> (u.borderGradient = 0)]
                  ELSE [color |-> u.waveColor, branch |-> "wave", divByZero |-> FALSE]
        ELSE [color |-> u.backgroundColor, branch |-> "background", divByZero |-> FALSE]

\* The pixels the model draws: column 0, and the rows around the wave's crest
\* plus one row deep in the wave and one in the gradient of the defaults
Pixels == {0} \X ({100, 190} \cup (205..215))

\* glDrawArrays(GL_TRIANGLES, 0, 6): the two triangles cover the viewport, so
\* the shader runs once for every pixel
glDrawArrays(u, q) == [p \in Pixels |-> main(u, FragCoord(p), q)]

---------------------------------------------------------------------------
(* WaveConfig *)

\* WaveConfig.reset(): the value every field is set to
reset_oldBorder ==
    [baseHeight |-> 150 * Scale,
     waveHeight1 |-> 60 * Scale,
     waveHeight2 |-> 4 * Scale,
     waveWidth1 |-> (25 * Scale) \div 10,
     waveWidth2 |-> 16 * Scale,
     waveSpeed1 |-> (26 * Scale) \div 10,
     waveSpeed2 |-> 32 * Scale,
     borderWidth |-> 5 * Scale,
     borderGradient |-> 20 * Scale,
     backgroundColor |-> <<0, 0, 0>>,
     waveColor |-> <<1 * Scale, 0, 0>>,
     borderColor |-> <<1 * Scale, 1 * Scale, 0>>]

reset ==
    [baseHeight |-> 150 * Scale,
     waveHeight1 |-> 60 * Scale,
     waveHeight2 |-> 4 * Scale,
     waveWidth1 |-> (25 * Scale) \div 10,
     waveWidth2 |-> 16 * Scale,
     waveSpeed1 |-> (26 * Scale) \div 10,
     waveSpeed2 |-> 32 * Scale,
     borderWidth |-> 5 * Scale,
     borderGradient |-> 20 * Scale,
     backgroundColor |-> <<0, 0, 0>>,
     waveColor |-> <<1 * Scale, 0, 0>>,
     borderColor |-> <<1 * Scale, (8 * Scale) \div 10, 0>>]

---------------------------------------------------------------------------
(* SettingsWidget and ColorPickerButton *)

\* SettingsWidget.settings: per attribute, the spin box's range (whole units),
\* its decimals and its step (1/Scale units)
settings_signedBorder ==
    [baseHeight     |-> [min |-> -100, max |-> 300, decimals |-> 1, step |-> Scale],
     waveHeight1    |-> [min |-> -200, max |-> 200, decimals |-> 1, step |-> Scale],
     waveHeight2    |-> [min |-> -200, max |-> 200, decimals |-> 1, step |-> Scale],
     waveWidth1     |-> [min |-> -30,  max |-> 30,  decimals |-> 2, step |-> Scale \div 10],
     waveWidth2     |-> [min |-> -30,  max |-> 30,  decimals |-> 2, step |-> Scale \div 10],
     waveSpeed1     |-> [min |-> -100, max |-> 100, decimals |-> 1, step |-> Scale],
     waveSpeed2     |-> [min |-> -100, max |-> 100, decimals |-> 1, step |-> Scale],
     borderWidth    |-> [min |-> -30,  max |-> 30,  decimals |-> 1, step |-> Scale],
     borderGradient |-> [min |-> -30,  max |-> 30,  decimals |-> 1, step |-> Scale]]

settings ==
    [baseHeight     |-> [min |-> -100, max |-> 300, decimals |-> 1, step |-> Scale],
     waveHeight1    |-> [min |-> -200, max |-> 200, decimals |-> 1, step |-> Scale],
     waveHeight2    |-> [min |-> -200, max |-> 200, decimals |-> 1, step |-> Scale],
     waveWidth1     |-> [min |-> -30,  max |-> 30,  decimals |-> 2, step |-> Scale \div 10],
     waveWidth2     |-> [min |-> -30,  max |-> 30,  decimals |-> 2, step |-> Scale \div 10],
     waveSpeed1     |-> [min |-> -100, max |-> 100, decimals |-> 1, step |-> Scale],
     waveSpeed2     |-> [min |-> -100, max |-> 100, decimals |-> 1, step |-> Scale],
     borderWidth    |-> [min |-> 0,    max |-> 30,  decimals |-> 1, step |-> Scale],
     borderGradient |-> [min |-> 0,    max |-> 30,  decimals |-> 1, step |-> Scale]]

\* SettingsWidget.colors: the attributes a colour button edits
colors == {"backgroundColor", "waveColor", "borderColor"}

\* The value a spin box takes when the user enters raw: setDecimals rounds it
\* and setRange bounds it
spinValue(name, raw) ==
    LET s == settings[name]
        q == IF s.decimals = 1 THEN Scale \div 10 ELSE Scale \div 100
        rounded == ((2 * raw + q) \div (2 * q)) * q
        lo == s.min * Scale
        hi == s.max * Scale
    IN  IF rounded < lo THEN lo ELSE IF rounded > hi THEN hi ELSE rounded

\* What the user enters in a spin box: a value below its range and one above it
UserInputs(name) ==
    {settings[name].min * Scale - Scale, settings[name].max * Scale + Scale}

\* ColorPickerButton.setColor(r, g, b): QColor(r * 255, g * 255, b * 255),
\* the float arguments truncated to int
setColor(c) == [i \in 1..3 |-> (c[i] * 255) \div Scale]

\* color.redF(), color.greenF(), color.blueF() of an 8-bit QColor
rgbF(q) == [i \in 1..3 |-> (q[i] * Scale) \div 255]

\* What QColorDialog.getColor returns: an invalid QColor when the dialog is
\* dismissed (its components read 0), a valid one otherwise
DialogResults ==
    {[valid |-> FALSE, rgb |-> <<0, 0, 0>>]}
    \cup {[valid |-> TRUE, rgb |-> c] : c \in {<<0, 0, 255>>, <<255, 204, 0>>}}

\* The slots connected to SettingsWidget.valueChanged
valueChangedSlots_twice == <<"update", "update">>

valueChangedSlots == <<"update">>

\* self.valueChanged.emit(): the effects of the connected slots, in order
emit == valueChangedSlots

\* RenderWidget.update() is requested by the effects es
requestsUpdate(es) == \E i \in 1..Len(es) : es[i] = "update"

---------------------------------------------------------------------------
(* The application: construction *)

\* The record of the handler that ran last
Ran(op, name, valid, events) ==
    [op |-> op, name |-> name, valid |-> valid, events |-> events]

\* The uniforms of a freshly linked program are zero
ZeroUniforms ==
    [baseHeight |-> 0, waveHeight1 |-> 0, waveHeight2 |-> 0,
     waveWidth1 |-> 0, waveWidth2 |-> 0, waveOffset1 |-> 0, waveOffset2 |-> 0,
     borderWidth |-> 0, borderGradient |-> 0,
     backgroundColor |-> <<0, 0, 0>>, waveColor |-> <<0, 0, 0>>,
     borderColor |-> <<0, 0, 0>>]

NotMerged == [called |-> FALSE, a |-> <<0, 0, 0>>, b |-> <<0, 0, 0>>, v |-> 0,
              out |-> <<0, 0, 0>>]

\* MainWindow.__init__: WaveConfig(), RenderWidget(config), SettingsWidget(config);
\* then window.show(), which leaves the first paint pending
Init ==
    /\ config = reset
    /\ waveOffset1 = 0
    /\ waveOffset2 = 0
    /\ spin = [n \in DOMAIN settings |-> spinValue(n, reset[n])]
    /\ button = [n \in colors |-> setColor(reset[n])]
    /\ updatePending = TRUE
    /\ uniforms = ZeroUniforms
    /\ frame = << >>
    /\ merged = NotMerged
    /\ last = Ran("init", "", TRUE, << >>)
    /\ ticks = 0
    /\ nEdits = 0

---------------------------------------------------------------------------
(* RenderWidget *)

\* RenderWidget.updateWaves, the slot of the 30 ms timer
updateWaves_assign ==
    /\ ticks < MaxTicks
    /\ waveOffset1' = config.waveSpeed1
    /\ waveOffset2' = config.waveSpeed2
    /\ updatePending' = TRUE
    /\ last' = Ran("updateWaves", "", TRUE, <<"update">>)
    /\ ticks' = ticks + 1
    /\ UNCHANGED <<config, spin, button, uniforms, frame, merged, nEdits>>

updateWaves_backwards ==
    /\ ticks < MaxTicks
    /\ waveOffset1' = waveOffset1 - config.waveSpeed1
    /\ waveOffset2' = waveOffset2 - config.waveSpeed2
    /\ updatePending' = TRUE
    /\ last' = Ran("updateWaves", "", TRUE, <<"update">>)
    /\ ticks' = ticks + 1
    /\ UNCHANGED <<config, spin, button, uniforms, frame, merged, nEdits>>

updateWaves ==
    /\ ticks < MaxTicks
    /\ waveOffset1' = waveOffset1 + config.waveSpeed1
    /\ waveOffset2' = waveOffset2 + config.waveSpeed2
    /\ updatePending' = TRUE
    /\ last' = Ran("updateWaves", "", TRUE, <<"update">>)
    /\ ticks' = ticks + 1
    /\ UNCHANGED <<config, spin, button, uniforms, frame, merged, nEdits>>

\* The glUniform calls of paintGL: the values the program holds afterwards
Uploaded ==
    [baseHeight |-> config.baseHeight,
     waveHeight1 |-> config.waveHeight1,
     waveHeight2 |-> config.waveHeight2,
     waveWidth1 |-> ToRadians(config.waveWidth1),
     waveWidth2 |-> ToRadians(config.waveWidth2),
     borderWidth |-> config.borderWidth,
     borderGradient |-> config.borderGradient,
     waveOffset1 |-> ToRadians(waveOffset1),
     waveOffset2 |-> ToRadians(waveOffset2),
     backgroundColor |-> config.backgroundColor,
     waveColor |-> config.waveColor,
     borderColor |-> config.borderColor]

\* RenderWidget.paintGL, run for a pending update request
paintGL ==
    /\ updatePending
    /\ uniforms' = Uploaded
    /\ \E q \in DivZeroQuotients : frame' = glDrawArrays(Uploaded, q)
    /\ updatePending' = FALSE
    /\ last' = Ran("paintGL", "", TRUE, << >>)
    /\ UNCHANGED <<config, spin, button, waveOffset1, waveOffset2, merged, ticks, nEdits>>

---------------------------------------------------------------------------
(* SettingsWidget *)

\* SettingsWidget.changeValue(name, value)
changeValue_resetsPhase(name, value) ==
    /\ config' = [config EXCEPT ![name] = value]
    /\ updatePending' = (updatePending \/ requestsUpdate(emit))
    /\ last' = Ran("changeValue", name, TRUE, <<"setattr">> \o emit)
    /\ nEdits' = nEdits + 1
    /\ waveOffset1' = (IF name = "waveSpeed1" THEN 0 ELSE waveOffset1)
    /\ waveOffset2' = (IF name = "waveSpeed2" THEN 0 ELSE waveOffset2)
    /\ UNCHANGED <<button, uniforms, frame, merged, ticks>>

changeValue(name, value) ==
    /\ config' = [config EXCEPT ![name] = value]
    /\ updatePending' = (updatePending \/ requestsUpdate(emit))
    /\ last' = Ran("changeValue", name, TRUE, <<"setattr">> \o emit)
    /\ nEdits' = nEdits + 1
    /\ UNCHANGED <<button, waveOffset1, waveOffset2, uniforms, frame, merged, ticks>>

\* QDoubleSpinBox.valueChanged of the spin box of attribute name: emitted when
\* the value it holds changes, and connected to changeValue(name, v)
SpinBoxEdit ==
    \E name \in DOMAIN settings : \E raw \in UserInputs(name) :
        LET v == spinValue(name, raw)
        IN  /\ nEdits < MaxEdits
            /\ v # spin[name]
            /\ spin' = [spin EXCEPT ![name] = v]
            /\ changeValue(name, v)

\* SettingsWidget.changeColor(name, color)
changeColor(name, color) ==
    /\ config' = [config EXCEPT ![name] = color]
    /\ updatePending' = (updatePending \/ requestsUpdate(emit))
    /\ nEdits' = nEdits + 1

\* ColorPickerButton.handleClicked of the button of attribute name, the dialog
\* returning result; valueChanged is connected to changeColor(name, color)
handleClicked_unchecked(name, result) ==
    LET rgb == rgbF(result.rgb)
    IN  /\ nEdits < MaxEdits
        /\ button' = [button EXCEPT ![name] = setColor(rgb)]
        /\ changeColor(name, rgb)
        /\ last' = Ran("handleClicked", name, result.valid,
                       <<"setColor", "setattr">> \o emit)
        /\ UNCHANGED <<spin, waveOffset1, waveOffset2, uniforms, frame, merged, ticks>>

handleClicked(name, result) ==
    IF result.valid
    THEN LET rgb == rgbF(result.rgb)
         IN  /\ nEdits < MaxEdits
             /\ button' = [button EXCEPT ![name] = setColor(rgb)]
             /\ changeColor(name, rgb)
             /\ last' = Ran("handleClicked", name, TRUE,
                            <<"setColor", "setattr">> \o emit)
             /\ UNCHANGED <<spin, waveOffset1, waveOffset2, uniforms, frame, merged, ticks>>
    ELSE /\ last' = Ran("handleClicked", name, FALSE, << >>)
         /\ UNCHANGED <<config, spin, button, waveOffset1, waveOffset2, updatePending,
                        uniforms, frame, merged, ticks, nEdits>>

ColorButtonClick ==
    \E name \in colors : \E result \in DialogResults : handleClicked(name, result)

\* WaveConfig.reset() called on the live configuration
Reset ==
    /\ config' = reset
    /\ last' = Ran("reset", "", TRUE, << >>)
    /\ UNCHANGED <<spin, button, waveOffset1, waveOffset2, updatePending, uniforms,
                   frame, merged, ticks, nEdits>>

Next ==
    \/ updateWaves
    \/ paintGL
    \/ SpinBoxEdit
    \/ ColorButtonClick
    \/ Reset

Spec == Init /\ [][Next]_vars

---------------------------------------------------------------------------
(* The shader on its own: the uniforms are drawn from the values the         *)
(* settings panel can produce, then the viewport is drawn and merge() is     *)
(* evaluated.                                                                *)

\* Uniform values: heights that put the crest on a pixel centre (214.5), on
\* a pixel edge (214) and in between (214.9), with and without the sine terms
ShaderUniforms ==
    {[ZeroUniforms EXCEPT !.baseHeight = bh,
                          !.waveHeight1 = 60 * Scale,
                          !.waveHeight2 = 4 * Scale,
                          !.waveWidth1 = ww,
                          !.waveOffset2 = off,
                          !.borderWidth = bw * Scale,
                          !.borderGradient = bg * Scale,
                          !.backgroundColor = reset.backgroundColor,
                          !.waveColor = reset.waveColor,
                          !.borderColor = reset.borderColor] :
        bh \in {150 * Scale, 150 * Scale + Scale \div 2, 150 * Scale + 90},
        ww \in {0, ToRadians(reset.waveWidth1)},
        off \in {0, ToRadians(180 * Scale)},
        bw \in 0..MaxBorder,
        bg \in 0..MaxBorder}

\* Colours and blend factors merge() is evaluated at
Palette == {<<0, 0, 0>>, <<Scale, 0, 0>>, <<Scale, 80, 0>>, <<33, 50, Scale>>}
MergeFactors == {0, Scale \div 4, Scale}

ShaderInit ==
    /\ config = reset
    /\ waveOffset1 = 0
    /\ waveOffset2 = 0
    /\ spin = [n \in DOMAIN settings |-> spinValue(n, reset[n])]
    /\ button = [n \in colors |-> setColor(reset[n])]
    /\ updatePending = FALSE
    /\ uniforms \in ShaderUniforms
    /\ frame = << >>
    /\ merged = NotMerged
    /\ last = Ran("init", "", TRUE, << >>)
    /\ ticks = 0
    /\ nEdits = 0

\* glDrawArrays with the uniforms as they are
ShaderDraw ==
    /\ \E q \in DivZeroQuotients : frame' = glDrawArrays(uniforms, q)
    /\ last' = Ran("glDrawArrays", "", TRUE, << >>)
    /\ UNCHANGED <<config, spin, button, waveOffset1, waveOffset2, updatePending,
                   uniforms, merged, ticks, nEdits>>

\* merge(a, b, v) evaluated on its own
MergeCall ==
    /\ \E a \in Palette, b \in Palette, v \in MergeFactors :
          merged' = [called |-> TRUE, a |-> a, b |-> b, v |-> v, out |-> merge(a, b, v)]
    /\ UNCHANGED <<config, spin, button, waveOffset1, waveOffset2, updatePending,
                   uniforms, frame, last, ticks, nEdits>>

ShaderNext ==
    \/ ShaderDraw
    \/ MergeCall

SpecShader == ShaderInit /\ [][ShaderNext]_vars

---------------------------------------------------------------------------
(* Properties *)

\* the framebuffer holds a drawn frame
Drawn == DOMAIN frame = Pixels

\* the row coordinate and the height of the fragment of pixel p in the frame
RowOf(p) == FragCoord(p)[2]
HeightOf(p) == Height(uniforms, FragCoord(p))

\* The band of row y by the half-open rule: [height, oo) background,
\* [height - bw, height) border, [height - bw - bg, height - bw) blend, below wave
HalfOpenBand(y, height, bw, bg) ==
    IF y >= height THEN "background"
    ELSE IF y >= height - bw THEN "border"
    ELSE IF y >= height - bw - bg THEN "blend"
    ELSE "wave"

\* The bands with the lower ends open: [height, oo) background,
\* (height - bw, height) border, (height - bw - bg, height - bw] blend,
\* (-oo, height - bw - bg] wave, the last two below height
InBackground(y, height, bw, bg) == y >= height
InBorder(y, height, bw, bg) == y < height /\ y > height - bw
InBlend(y, height, bw, bg) == y < height /\ y <= height - bw /\ y > height - bw - bg
InWave(y, height, bw, bg) == y < height /\ y <= height - bw - bg

\* The colour the half-open rule gives row y: the colour of its band, the
\* blend at t = (y - (height - bw - bg)) / bg
HalfOpenColor(u, y, height) ==
    LET band == HalfOpenBand(y, height, u.borderWidth, u.borderGradient)
        low == height - u.borderWidth - u.borderGradient
    IN  CASE band = "background" -> u.backgroundColor
          [] band = "border" -> u.borderColor
          [] band = "blend" ->
                [i \in 1..3 |->
                    u.waveColor[i]
                    + ((u.borderColor[i] - u.waveColor[i])
                       * (((y - low) * Scale) \div u.borderGradient)) \div Scale]
          [] OTHER -> u.waveColor

\* the row of p is exactly at the lower end of a border that has no gradient
\* below it
AtBareBorderEnd(p) ==
    /\ uniforms.borderGradient = 0
    /\ uniforms.borderWidth > 0
    /\ RowOf(p) = HeightOf(p) - uniforms.borderWidth

\* C1 as stated: every pixel of a drawn frame has the colour of the band the
\* half-open rule puts its row in; in particular with borderGradient = 0 the
\* row y = height - borderWidth has the border colour.
C1_HalfOpenRule ==
    Drawn => \A p \in Pixels :
        frame[p].color = HalfOpenColor(uniforms, RowOf(p), HeightOf(p))

\* C1 amended: every pixel of a drawn frame is in exactly one of the four
\* bands whose lower ends are open, and is coloured by that band: background
\* for y >= height, border for height - bw < y < height, blend for
\* height - bw - bg < y <= height - bw, wave for y <= height - bw - bg.  Its
\* colour is the half-open rule's, except on the row y = height - bw when
\* bg = 0 and bw > 0, which has the wave colour.
C1_OpenBelowRule ==
    Drawn => \A p \in Pixels :
        LET y == RowOf(p)
            h == HeightOf(p)
            bw == uniforms.borderWidth
            bg == uniforms.borderGradient
            f == frame[p]
            bands == {b \in {"background", "border", "blend", "wave"} :
                        \/ b = "background" /\ InBackground(y, h, bw, bg)
                        \/ b = "border" /\ InBorder(y, h, bw, bg)
                        \/ b = "blend" /\ InBlend(y, h, bw, bg)
                        \/ b = "wave" /\ InWave(y, h, bw, bg)}
        IN  /\ bands = {f.branch}
            /\ f.branch = "background" => f.color = uniforms.backgroundColor
            /\ f.branch = "border" => f.color = uniforms.borderColor
            /\ f.branch = "wave" => f.color = uniforms.waveColor
            /\ AtBareBorderEnd(p) => f.color = uniforms.waveColor
            /\ ~AtBareBorderEnd(p) => f.color = HalfOpenColor(uniforms, y, h)

\* C1 witness: a drawn frame with borderGradient = 0 and a pixel row exactly at
\* height - borderWidth, which the shader colours as wave
C1_Witness ==
    /\ Drawn
    /\ \E p \in Pixels : AtBareBorderEnd(p) /\ frame[p].branch = "wave"

\* C2: with borderGradient = 0 no pixel of a drawn frame takes the blended
\* branch, none evaluates the division by borderGradient, and each gets
\* exactly the background, border or wave colour.
C2_NoDivisionByZero ==
    (Drawn /\ uniforms.borderGradient = 0) => \A p \in Pixels :
        /\ ~frame[p].divByZero
        /\ frame[p].branch # "blend"
        /\ frame[p].color \in {uniforms.backgroundColor, uniforms.borderColor,
                               uniforms.waveColor}

\* C2 witness: a drawn frame with borderGradient = 0 that has a row on each
\* side of, and one exactly at, the lower end of the border
C2_Witness ==
    /\ Drawn
    /\ uniforms.borderGradient = 0
    /\ \E p \in Pixels : RowOf(p) = HeightOf(p) - uniforms.borderWidth
    /\ \E p \in Pixels : frame[p].branch = "border"
    /\ \E p \in Pixels : frame[p].branch = "wave"

\* The defaults as documented, in 1/Scale
DocumentedDefaults ==
    [baseHeight |-> 15000, waveHeight1 |-> 6000, waveHeight2 |-> 400,
     waveWidth1 |-> 250, waveWidth2 |-> 1600, waveSpeed1 |-> 260,
     waveSpeed2 |-> 3200, borderWidth |-> 500, borderGradient |-> 2000,
     backgroundColor |-> <<0, 0, 0>>, waveColor |-> <<100, 0, 0>>,
     borderColor |-> <<100, 80, 0>>]

\* C3: right after construction and right after any reset(), whatever edits
\* and ticks came before, every configuration field has its documented default.
C3_ResetRestoresDefaults ==
    last.op \in {"init", "reset"} => config = DocumentedDefaults

\* C3 witness: reset() has run after an edit and a tick; the spin box still
\* shows the edited value, the configuration is back at the default
C3_Witness ==
    /\ last.op = "reset"
    /\ nEdits > 0
    /\ ticks > 0
    /\ \E n \in DOMAIN settings : spin[n] # config[n]

\* C4: with no settings edit since the widget was created, after N ticks
\* waveOffset1 = N * waveSpeed1 and waveOffset2 = N * waveSpeed2.
C4_OffsetsAccumulate ==
    nEdits = 0 =>
        /\ waveOffset1 = ticks * config.waveSpeed1
        /\ waveOffset2 = ticks * config.waveSpeed2

\* C4 witness: at least two ticks and no edit
C4_Witness == nEdits = 0 /\ ticks >= 2 /\ waveOffset1 > config.waveSpeed1

\* an edit the settings panel accepted ran last
EditRanLast ==
    \/ last.op = "changeValue"
    \/ last.op = "handleClicked" /\ last.valid

\* C5: an accepted edit writes the configuration field once, then requests
\* exactly one redraw; afterwards the field holds the edited value.
C5_EditWritesThenOneRedraw ==
    EditRanLast =>
        LET es == last.events
            writes == {i \in 1..Len(es) : es[i] = "setattr"}
            redraws == {i \in 1..Len(es) : es[i] = "update"}
        IN  /\ Cardinality(writes) = 1
            /\ Cardinality(redraws) = 1
            /\ \A i \in writes, j \in redraws : i < j
            /\ updatePending
            /\ last.op = "changeValue" => config[last.name] = spin[last.name]
            /\ last.op = "handleClicked" => setColor(config[last.name]) = button[last.name]

\* C5 witness: a numeric edit ran last and changed the field from its default
C5_Witness ==
    /\ last.op = "changeValue"
    /\ config[last.name] # reset[last.name]

\* C6: merge(a, b, 0) = a and merge(a, b, 1) = b for all colours a, b; and a
\* drawn pixel at y = height - borderWidth in the blended band (t = 1) has
\* the border colour.
C6_MergeEndpoints ==
    /\ merged.called =>
          /\ merged.v = 0 => merged.out = merged.a
          /\ merged.v = Scale => merged.out = merged.b
    /\ Drawn => \A p \in Pixels :
          (frame[p].branch = "blend" /\ RowOf(p) = HeightOf(p) - uniforms.borderWidth)
              => frame[p].color = uniforms.borderColor

\* C6 witness: merge evaluated at t = 1 on two different colours, and a frame
\* with a blended pixel at t = 1
C6_Witness ==
    /\ merged.called
    /\ merged.v = Scale
    /\ merged.a # merged.b
    /\ Drawn
    /\ \E p \in Pixels :
          frame[p].branch = "blend" /\ RowOf(p) = HeightOf(p) - uniforms.borderWidth

\* The ranges as declared, in whole units
DeclaredRange ==
    [baseHeight |-> <<-100, 300>>,
     waveHeight1 |-> <<-200, 200>>, waveHeight2 |-> <<-200, 200>>,
     waveWidth1 |-> <<-30, 30>>, waveWidth2 |-> <<-30, 30>>,
     waveSpeed1 |-> <<-100, 100>>, waveSpeed2 |-> <<-100, 100>>,
     borderWidth |-> <<0, 30>>, borderGradient |-> <<0, 30>>]

\* C7: every numeric configuration field is within its declared range.
C7_FieldsInRange ==
    \A n \in DOMAIN DeclaredRange :
        /\ config[n] >= DeclaredRange[n][1] * Scale
        /\ config[n] <= DeclaredRange[n][2] * Scale

\* C7 witness: the user entered a border width below the range and the
\* configuration holds 0
C7_Witness ==
    /\ last.op = "changeValue"
    /\ last.name = "borderWidth"
    /\ config.borderWidth = 0

\* C8 as stated: no timer tick makes waveOffset1 or waveOffset2 smaller.
C8_NeverSmaller ==
    [][last'.op = "updateWaves" =>
          (waveOffset1' >= waveOffset1 /\ waveOffset2' >= waveOffset2)]_vars

\* C8 amended: a timer tick adds waveSpeed1 to waveOffset1 and waveSpeed2 to
\* waveOffset2, so an offset is not smaller after the tick exactly when its
\* speed is not negative.
C8_AdvanceBySpeed ==
    [][last'.op = "updateWaves" =>
          /\ waveOffset1' = waveOffset1 + config.waveSpeed1
          /\ waveOffset2' = waveOffset2 + config.waveSpeed2
          /\ (waveOffset1' >= waveOffset1) <=> (config.waveSpeed1 >= 0)
          /\ (waveOffset2' >= waveOffset2) <=> (config.waveSpeed2 >= 0)]_vars

\* C8 witness: a tick ran with waveSpeed1 negative and took waveOffset1 below 0
C8_Witness ==
    /\ last.op = "updateWaves"
    /\ config.waveSpeed1 < 0
    /\ waveOffset1 < 0

\* C9: a tick changes no configuration field; an edit changes no field but
\* the one it names and neither phase offset; a dismissed colour dialog
\* changes no field; a paint changes neither the configuration nor the offsets.
C9_OwnStateOnly ==
    [][/\ last'.op = "updateWaves" => config' = config
       /\ (last'.op = "changeValue" \/ last'.op = "handleClicked") =>
             /\ \A n \in DOMAIN config : n # last'.name => config'[n] = config[n]
             /\ ~last'.valid => config' = config
             /\ waveOffset1' = waveOffset1
             /\ waveOffset2' = waveOffset2
       /\ last'.op = "paintGL" =>
             /\ config' = config
             /\ waveOffset1' = waveOffset1
             /\ waveOffset2' = waveOffset2]_vars

\* C9 witness: waveSpeed1 was edited after a tick and the accumulated offset
\* is still there
C9_Witness ==
    /\ last.op = "changeValue"
    /\ last.name = "waveSpeed1"
    /\ ticks > 0
    /\ waveOffset1 = ticks * reset.waveSpeed1
    /\ config.waveSpeed1 # reset.waveSpeed1

\* C10: a dismissed colour dialog changes neither the configuration nor the
\* button and requests no redraw; a valid selection sets the button colour,
\* then the configuration field, then requests a redraw.
C10_DismissedIsNoOp ==
    [][last'.op = "handleClicked" =>
          IF last'.valid
          THEN /\ last'.events = <<"setColor", "setattr", "update">>
               /\ setColor(config'[last'.name]) = button'[last'.name]
               /\ updatePending'
          ELSE /\ last'.events = << >>
               /\ config' = config
               /\ button' = button
               /\ updatePending' = updatePending]_vars

\* C10 witness: the wave colour's dialog was dismissed with no redraw pending
C10_Witness ==
    /\ last.op = "handleClicked"
    /\ ~last.valid
    /\ last.name = "waveColor"
    /\ ~updatePending

====
